---- MODULE Spec2Model ----
(***************************************************************************)
(* State-machine model of src/components/Settings/storage.ts: the backend  *)
(* selector (storageName), the unified accessor (get, set), the two        *)
(* callback adapters (chromeStorageGet, browserStorageGet), the debounced  *)
(* writer (throttledCallback(set)) and the change listener (addListener).  *)
(*                                                                         *)
(* Strings are sequences of one-character strings.  A JavaScript value is  *)
(* a record [type, str, x10]: a string carries its characters in str, a    *)
(* number carries ten times its value in x10 (so 4.5 is x10 = 45 and 42 is *)
(* x10 = 420); undefined and null carry neither.                           *)
(***************************************************************************)
EXTENDS Integers, Sequences, FiniteSets, TLC

\* ------------------------------------------------------------------ bounds
MaxPending == 2
MaxTimers == 3
MaxListeners == 2
MaxLen == 3

\* ------------------------------------------------------------------ values
Str(s) == [type |-> "string", str |-> s, x10 |-> 0]
Num10(t) == [type |-> "number", str |-> <<>>, x10 |-> t]
Num(i) == Num10(10 * i)
Undefined == [type |-> "undefined", str |-> <<>>, x10 |-> 0]
Null == [type |-> "null", str |-> <<>>, x10 |-> 0]

Keys == {"k1", "k2"}

\* the strings "", "42", "007", "4.5" and the numbers 0, 42, 4.5, -1
StrSamples == { <<>>, <<"4", "2">>, <<"0", "0", "7">>, <<"4", ".", "5">> }
NumSamples == { Num(0), Num(42), Num10(45), Num(0 - 1) }
Values == { Str(s) : s \in StrSamples } \cup NumSamples

\* ------------------------------------------------------- Number.toString
DigitChars == <<"0", "1", "2", "3", "4", "5", "6", "7", "8", "9">>
Digits == { DigitChars[i] : i \in 1..10 }
DigitValue(c) == (CHOOSE i \in 1..10 : DigitChars[i] = c) - 1

RECURSIVE DecimalDigits(_)
DecimalDigits(n) ==
    IF n < 10 THEN << DigitChars[n + 1] >>
    ELSE Append(DecimalDigits(n \div 10), DigitChars[(n % 10) + 1])

Abs(t) == IF t < 0 THEN 0 - t ELSE t

NumberToString(t) ==
    (IF t < 0 THEN << "-" >> ELSE << >>)
        \o DecimalDigits(Abs(t) \div 10)
        \o (IF Abs(t) % 10 = 0 THEN << >> ELSE << ".", DigitChars[(Abs(t) % 10) + 1] >>)

\* a formatter that always prints one decimal place
toString_fixed(v) ==
    IF v.type = "number"
      THEN (IF v.x10 < 0 THEN << "-" >> ELSE << >>)
              \o DecimalDigits(Abs(v.x10) \div 10)
              \o << ".", DigitChars[(Abs(v.x10) % 10) + 1] >>
      ELSE v.str

\* v.toString() of storage.ts:87
toString(v) == IF v.type = "number" THEN NumberToString(v.x10) ELSE v.str

\* ------------------------------------------------------------ parseDigits
\* the pattern with * for +: /^\d*$/
digitsTest_allowsEmpty(s) == \A i \in 1..Len(s) : s[i] \in Digits

\* digits.test(str), digits = /^\d+$/
digitsTest(s) == Len(s) >= 1 /\ \A i \in 1..Len(s) : s[i] \in Digits

RECURSIVE parseInt(_)
parseInt(s) ==
    IF Len(s) = 0 THEN 0
    ELSE 10 * parseInt(SubSeq(s, 1, Len(s) - 1)) + DigitValue(s[Len(s)])

parseDigits(s) == IF digitsTest(s) THEN Num(parseInt(s)) ELSE Str(s)

\* ------------------------------------------------------------ the host
\* What the page's global scope offers under the names chrome and browser:
\* the name is not declared, it has no storage member, its storage has no
\* sync area, or the synchronized area is there.
HostShapes == {"undeclared", "noStorage", "noSync", "sync"}
typeofDefined(h) == h # "undeclared"
storageDefined(h) == h \in {"noSync", "sync"}
syncDefined(h) == h = "sync"

\* error objects, by name
NoError == "none"
ChromeLastError == "chrome.runtime.lastError"
BrowserLastError == "browser.runtime.lastError"
NativeSetError == "storage.sync.set rejection"
TypeError == "TypeError"
ReferenceError == "ReferenceError"
QuotaExceededError == "QuotaExceededError"
SecurityError == "SecurityError"

VARIABLES
    chromeHost,     \* shape of the global chrome
    browserHost,    \* shape of the global browser
    storageName,    \* the module constant storageName
    chromeSync,     \* contents of chrome.storage.sync: key -> value or Undefined
    browserSync,    \* contents of browser.storage.sync
    localStorage,   \* contents of window.localStorage: key -> Str(..) or Null
    written,        \* history: the value last written to each key through set
    midLoop,        \* set calls suspended inside their for-in loop, with their progress
    pending,        \* native calls in flight, each with the call awaiting it
    delivered,      \* how the promise settled by the last step was settled
    stateT,         \* state.t of the throttledSet closure: 0 is null
    timers,         \* the host's pending setTimeout timers
    nextTimer,      \* the next timer id the host hands out
    burst,          \* history: arguments of the throttledSet calls of the burst
    fired,          \* history: arguments the timers of the burst passed to set
    subscriptions,  \* listeners installed by addListener, in order
    handlerCalls,   \* handler invocations made by the last native event
    lastEvent,      \* the last native event the host dispatched
    eventParity     \* parity of the number of native events dispatched

storeVars == << chromeSync, browserSync, localStorage, written, midLoop >>
hostVars == << chromeHost, browserHost, storageName >>
timerVars == << stateT, timers, nextTimer, burst, fired >>
listenVars == << subscriptions, handlerCalls, lastEvent, eventParity >>
vars == << hostVars, storeVars, pending, delivered, timerVars, listenVars >>

\* the two extension checks in the other order
ResolveStorageName_browserFirst(ch, br) ==
    IF typeofDefined(br) /\ storageDefined(br) /\ syncDefined(br)
        THEN "browser.storage"
    ELSE IF typeofDefined(ch) /\ storageDefined(ch) /\ syncDefined(ch)
        THEN "chrome.storage"
    ELSE "localStorage"

\* ------------------------------------------------------------ storageName
ResolveStorageName(ch, br) ==
    IF typeofDefined(ch) /\ storageDefined(ch) /\ syncDefined(ch)
        THEN "chrome.storage"
    ELSE IF typeofDefined(br) /\ storageDefined(br) /\ syncDefined(br)
        THEN "browser.storage"
    ELSE "localStorage"

\* ------------------------------------------------------------ get
EmptyStore == [k \in Keys |-> Undefined]
EmptyLocal == [k \in Keys |-> Null]

\* the mapping a native get(key) hands to its callback
NativeItems(store, key) == [k \in Keys |-> IF k = key THEN store[k] ELSE Undefined]

\* A promise: state is "resolved", "rejected" or "pending" (never settled).
Resolved(v) == [state |-> "resolved", value |-> v, error |-> NoError]
Rejected(e) == [state |-> "rejected", value |-> Undefined, error |-> e]
NeverSettled == [state |-> "pending", value |-> Undefined, error |-> NoError]

\* chromeStorageGet's callback: lastError is what chrome?.runtime?.lastError
\* reads, gotItems says whether the host passed a result mapping.
chromeStorageGet(lastError, gotItems) ==
    IF lastError # NoError THEN [state |-> "rejected", error |-> lastError, gotItems |-> FALSE]
    ELSE [state |-> "resolved", error |-> NoError, gotItems |-> gotItems]

\* browserStorageGet's callback reads chrome?.runtime?.lastError too: with
\* chrome undeclared the read throws inside the callback and the promise is
\* never settled.
browserStorageGet(chromeShape, chromeLastError, gotItems) ==
    IF ~typeofDefined(chromeShape)
        THEN [state |-> "pending", error |-> ReferenceError, gotItems |-> FALSE]
    ELSE IF chromeLastError # NoError
        THEN [state |-> "rejected", error |-> chromeLastError, gotItems |-> FALSE]
    ELSE [state |-> "resolved", error |-> NoError, gotItems |-> gotItems]

\* an extension read that runs the stored value through parseDigits
ItemOrDefault_coerce(items, key, defaultValue) ==
    IF items[key] # Undefined
      THEN (IF items[key].type = "string" THEN parseDigits(items[key].str) ELSE items[key])
      ELSE defaultValue

\* an extension read that tests the stored value for truth: items[key] || defaultValue
ItemOrDefault_truthy(items, key, defaultValue) ==
    IF items[key] \notin {Undefined, Num(0), Str(<< >>)} THEN items[key] ELSE defaultValue

\* result = items[key] !== undefined ? items[key] : defaultValue
ItemOrDefault(items, key, defaultValue) ==
    IF items[key] # Undefined THEN items[key] ELSE defaultValue

\* get after its await: the adapter's promise a, the mapping it resolved with
getAfterAwait(a, items, key, defaultValue) ==
    IF a.state = "pending" THEN NeverSettled
    ELSE IF a.state = "rejected" THEN Rejected(a.error)
    ELSE IF ~a.gotItems THEN Rejected(TypeError)
    ELSE Resolved(ItemOrDefault(items, key, defaultValue))

\* a fallback read that coerces whatever it returns, the default included
getLocal_coerceDefault(storedValue, defaultValue) ==
    IF storedValue # Null THEN parseDigits(storedValue.str)
    ELSE IF defaultValue.type = "string" THEN parseDigits(defaultValue.str)
    ELSE defaultValue

\* get on localStorage: storedValue is what getItem returned
getLocal(storedValue, defaultValue) ==
    IF storedValue # Null THEN parseDigits(storedValue.str) ELSE defaultValue

\* ------------------------------------------------------------ set
\* An argument of set is a mapping, kept as the sequence of its <<key, value>>
\* pairs in the order for-in visits them.
Pair(k, v) == << k, v >>
MultiValues == { Num(42), Str(<<"0", "0", "7">>), Str(<<"4", ".", "5">>) }
SetArgs ==
    { << >> }
        \cup { << Pair(k, v) >> : k \in Keys, v \in Values }
        \cup { << Pair("k1", v), Pair("k2", w) >> : v \in MultiValues, w \in MultiValues }
        \cup { << Pair("k2", v), Pair("k1", w) >> : v \in {Num(42)}, w \in MultiValues }

\* localStorage.setItem(k, v.toString())
setItem(store, k, v) == [store EXCEPT ![k] = Str(toString(v))]

\* the for-in loop of set after its first n iterations
RECURSIVE setLoop(_, _, _)
setLoop(store, args, n) ==
    IF n = 0 THEN store
    ELSE setItem(setLoop(store, args, n - 1), args[n][1], args[n][2])

\* a set that hands the native store the string form of every value
RECURSIVE nativeSet_stringify(_, _, _)
nativeSet_stringify(store, args, n) ==
    IF n = 0 THEN store
    ELSE [nativeSet_stringify(store, args, n - 1) EXCEPT ![args[n][1]] = Str(toString(args[n][2]))]

\* chrome.storage.sync.set(obj), browser.storage.sync.set(obj): the native
\* store takes the whole mapping, values as they are
RECURSIVE nativeSet(_, _, _)
nativeSet(store, args, n) ==
    IF n = 0 THEN store
    ELSE [nativeSet(store, args, n - 1) EXCEPT ![args[n][1]] = args[n][2]]

\* history: the values handed to set for the first n keys of args
RECURSIVE noteWritten(_, _, _)
noteWritten(w, args, n) ==
    IF n = 0 THEN w
    ELSE [noteWritten(w, args, n - 1) EXCEPT ![args[n][1]] = args[n][2]]

\* an await inside the loop body: the loop yields after every iteration
iterationsBeforeYield_awaitEach(args) == IF Len(args) = 0 THEN 0 ELSE 1

\* The for-in loop holds no await: every iteration runs in the task that
\* called set, before anything else can run.
iterationsBeforeYield(args) == Len(args)

LoopState(args, done) == [args |-> args, done |-> done]

\* a loop wrapped in try/catch that drops what setItem throws
setLocal_swallow(args, failAt) == Resolved(Undefined)

\* set on localStorage when setItem throws at pair failAt (Len(args) + 1: never)
setLocal(args, failAt) ==
    IF failAt <= Len(args) THEN Rejected(QuotaExceededError) ELSE Resolved(Undefined)

\* set on an extension backend: await of the native promise
setAfterAwait(nativeError) ==
    IF nativeError # NoError THEN Rejected(nativeError) ELSE Resolved(Undefined)

\* ------------------------------------------------------------ observations
\* delivered: the public operation settled by the last step, the caller the
\* settlement reached ("caller", or "nobody" when the promise was dropped),
\* what the native call reported and how the adapter's promise ended.
NoCall == [ op |-> "none", to |-> "nobody", api |-> "none", key |-> "", dflt |-> Undefined,
            args |-> << >>, native |-> NoError, adapter |-> "none", adapterError |-> NoError,
            state |-> "none", value |-> Undefined, error |-> NoError ]

Delivery(op, to, api, key, dflt, args, native, adapter, adapterError, p) ==
    [ op |-> op, to |-> to, api |-> api, key |-> key, dflt |-> dflt, args |-> args,
      native |-> native, adapter |-> adapter, adapterError |-> adapterError,
      state |-> p.state, value |-> p.value, error |-> p.error ]

Request(op, api, key, dflt, args, origin) ==
    [ op |-> op, api |-> api, key |-> key, dflt |-> dflt, args |-> args, origin |-> origin ]

ApiOf(name) == IF name = "chrome.storage" THEN "chrome" ELSE "browser"
RemoveAt(q, i) == SubSeq(q, 1, i - 1) \o SubSeq(q, i + 1, Len(q))

\* no native event dispatched yet
NoEvent == [target |-> "none", changes |-> {}, area |-> "",
            key |-> Null, oldValue |-> Null, newValue |-> Null]

TypeOK ==
    /\ chromeHost \in HostShapes /\ browserHost \in HostShapes
    /\ storageName \in {"chrome.storage", "browser.storage", "localStorage"}
    /\ \A k \in Keys : chromeSync[k] \in Values \cup {Undefined}
    /\ \A k \in Keys : browserSync[k] \in Values \cup {Undefined}
    /\ \A k \in Keys : localStorage[k].type \in {"string", "null"}
    /\ Len(pending) <= MaxPending
    /\ eventParity \in {0, 1}

Init ==
    /\ chromeHost \in HostShapes
    /\ browserHost \in HostShapes
    /\ storageName = ResolveStorageName(chromeHost, browserHost)
    /\ chromeSync = EmptyStore
    /\ browserSync = EmptyStore
    /\ localStorage = EmptyLocal
    /\ written = EmptyStore
    /\ midLoop = << >>
    /\ pending = << >>
    /\ delivered = NoCall
    /\ stateT = 0
    /\ timers = {}
    /\ nextTimer = 1
    /\ burst = << >>
    /\ fired = << >>
    /\ subscriptions = << >>
    /\ handlerCalls = << >>
    /\ lastEvent = NoEvent
    /\ eventParity = 0

\* What evaluating <api>.storage.sync (needSync) or <api>.storage.onChanged
\* throws on a host of shape h: the identifier may be gone, or storage, or sync.
hostError(h, needSync) ==
    IF ~typeofDefined(h) THEN ReferenceError
    ELSE IF ~storageDefined(h) THEN TypeError
    ELSE IF needSync /\ ~syncDefined(h) THEN TypeError
    ELSE NoError

apiError(name, needSync) ==
    IF name = "chrome.storage" THEN hostError(chromeHost, needSync)
    ELSE IF name = "browser.storage" THEN hostError(browserHost, needSync)
    ELSE NoError

\* The host gains or loses chrome / browser after the module was loaded; the
\* module-level constant storageName is not evaluated again.
HostChanges_reresolve(ch, br) ==
    /\ << ch, br >> # << chromeHost, browserHost >>
    /\ chromeHost' = ch
    /\ browserHost' = br
    /\ storageName' = ResolveStorageName(ch, br)
    /\ delivered' = NoCall
    /\ UNCHANGED << storeVars, pending, timerVars, listenVars >>

HostChanges(ch, br) ==
    /\ << ch, br >> # << chromeHost, browserHost >>
    /\ chromeHost' = ch
    /\ browserHost' = br
    /\ storageName' = storageName
    /\ delivered' = NoCall
    /\ UNCHANGED << storeVars, pending, timerVars, listenVars >>

\* ------------------------------------------------------------ get, the call
\* storage.get(obj) up to its await (extension backends) or, on localStorage,
\* to its end; getItemThrows: the host denies access to localStorage.
Get(key, defaultValue, getItemThrows) ==
    /\ IF storageName \in {"chrome.storage", "browser.storage"}
         THEN /\ ~getItemThrows
              /\ IF apiError(storageName, TRUE) = NoError
                   THEN /\ Len(pending) < MaxPending
                        /\ pending' = Append(pending,
                              Request("get", ApiOf(storageName), key, defaultValue, << >>, "caller"))
                        /\ delivered' = NoCall
                   ELSE /\ pending' = pending
                        /\ delivered' = Delivery("get", "caller", ApiOf(storageName), key,
                              defaultValue, << >>, NoError, "rejected",
                              apiError(storageName, TRUE),
                              Rejected(apiError(storageName, TRUE)))
         ELSE /\ pending' = pending
              /\ delivered' = Delivery("get", "caller", "localStorage", key, defaultValue, << >>,
                    IF getItemThrows THEN SecurityError ELSE NoError, "none", NoError,
                    IF getItemThrows THEN Rejected(SecurityError)
                    ELSE Resolved(getLocal(localStorage[key], defaultValue)))
    /\ UNCHANGED << hostVars, storeVars, timerVars, listenVars >>

\* The host runs the callback of a native get: nativeError is the lastError of
\* the API that was called, gotItems whether a failed call still passes a
\* mapping.  chrome.runtime.lastError is set only inside callbacks of chrome.
GetCallback(i, nativeError, gotItems) ==
    /\ i \in 1..Len(pending)
    /\ pending[i].op = "get"
    /\ nativeError = NoError => gotItems
    /\ LET r == pending[i]
           store == IF r.api = "chrome" THEN chromeSync ELSE browserSync
           items == IF nativeError = NoError THEN NativeItems(store, r.key) ELSE EmptyStore
           a == IF r.api = "chrome"
                  THEN chromeStorageGet(nativeError, gotItems)
                  ELSE browserStorageGet(chromeHost, NoError, gotItems)
       IN  /\ nativeError \in (IF r.api = "chrome" THEN {NoError, ChromeLastError}
                                                   ELSE {NoError, BrowserLastError})
           /\ delivered' = Delivery("get", r.origin, r.api, r.key, r.dflt, << >>, nativeError,
                    a.state, a.error, getAfterAwait(a, items, r.key, r.dflt))
    /\ pending' = RemoveAt(pending, i)
    /\ UNCHANGED << hostVars, storeVars, timerVars, listenVars >>

\* ------------------------------------------------------------ set, the call
\* The body of set, for a call from origin ("caller": storage.set; "timer":
\* the debounced writer's timer, which drops the promise).
setBody(args, origin, failAt) ==
    IF storageName \in {"chrome.storage", "browser.storage"}
      THEN /\ failAt = Len(args) + 1
           /\ IF apiError(storageName, TRUE) = NoError
                THEN /\ Len(pending) < MaxPending
                     /\ pending' = Append(pending,
                           Request("set", ApiOf(storageName), "", Undefined, args, origin))
                     /\ delivered' = NoCall
                ELSE /\ pending' = pending
                     /\ delivered' = Delivery("set",
                           IF origin = "caller" THEN "caller" ELSE "nobody",
                           ApiOf(storageName), "", Undefined, args, NoError, "none",
                           apiError(storageName, TRUE),
                           Rejected(apiError(storageName, TRUE)))
           /\ UNCHANGED storeVars
      ELSE /\ failAt \in 1..(Len(args) + 1)
           /\ LET run == iterationsBeforeYield(args)
                  n == IF failAt - 1 < run THEN failAt - 1 ELSE run
                  yields == run < Len(args) /\ failAt > run
              IN  /\ localStorage' = setLoop(localStorage, args, n)
                  /\ written' = noteWritten(written, args, n)
                  /\ IF yields
                       THEN /\ midLoop' = Append(midLoop, LoopState(args, n))
                            /\ delivered' = NoCall
                       ELSE /\ midLoop' = midLoop
                            /\ delivered' = Delivery("set",
                                  IF origin = "caller" THEN "caller" ELSE "nobody",
                                  "localStorage",
                                  IF failAt <= Len(args) THEN args[failAt][1] ELSE "",
                                  Undefined, args,
                                  IF failAt <= Len(args) THEN QuotaExceededError ELSE NoError,
                                  "none", NoError, setLocal(args, failAt))
           /\ pending' = pending
           /\ UNCHANGED << chromeSync, browserSync >>

Set(args, failAt) ==
    /\ setBody(args, "caller", failAt)
    /\ UNCHANGED << hostVars, timerVars, listenVars >>

\* The native promise of storage.sync.set settles and set resumes.
SetSettles(i, nativeError) ==
    /\ i \in 1..Len(pending)
    /\ pending[i].op = "set"
    /\ LET r == pending[i]
       IN  /\ IF nativeError = NoError
                THEN /\ chromeSync' = IF r.api = "chrome"
                            THEN nativeSet(chromeSync, r.args, Len(r.args)) ELSE chromeSync
                     /\ browserSync' = IF r.api = "browser"
                            THEN nativeSet(browserSync, r.args, Len(r.args)) ELSE browserSync
                     /\ written' = noteWritten(written, r.args, Len(r.args))
                ELSE UNCHANGED << chromeSync, browserSync, written >>
           /\ midLoop' = midLoop
           /\ delivered' = Delivery("set", IF r.origin = "caller" THEN "caller" ELSE "nobody",
                    r.api, "", Undefined, r.args, nativeError, "none", NoError,
                    setAfterAwait(nativeError))
    /\ pending' = RemoveAt(pending, i)
    /\ UNCHANGED << hostVars, localStorage, timerVars, listenVars >>

\* ------------------------------------------------------------ throttledSet
\* storage.throttledSet = throttledCallback(set): one closure, one state.t.
\* A timer of the host: its id, the arguments its callback closes over, and
\* whether throttlePeriod has elapsed since setTimeout (only then may it run).
Timer(id, args) == [id |-> id, args |-> args, due |-> FALSE]

\* clearTimeout(state.t) under if (state.t)
clearTimeout(ts, t) == IF t # 0 THEN { x \in ts : x.id # t } ELSE ts

\* the call arrives less than throttlePeriod after the previous one
InBurst == \E x \in timers : x.id = stateT /\ ~x.due

\* a wrapper with a leading edge: the first call of a burst invokes set at once
ThrottledSet_leading(args) ==
    /\ nextTimer <= MaxTimers
    /\ timers' = clearTimeout(timers, stateT) \cup { Timer(nextTimer, args) }
    /\ stateT' = nextTimer
    /\ nextTimer' = nextTimer + 1
    /\ burst' = IF InBurst THEN Append(burst, args) ELSE << args >>
    /\ fired' = IF InBurst THEN fired ELSE << args >>
    /\ IF InBurst THEN delivered' = NoCall /\ UNCHANGED << storeVars, pending >>
                  ELSE setBody(args, "timer", Len(args) + 1)
    /\ UNCHANGED << hostVars, listenVars >>

\* a wrapper that cancels the pending timer and returns without a new one
ThrottledSet_noRestart(args) ==
    /\ nextTimer <= MaxTimers
    /\ IF stateT # 0
         THEN timers' = clearTimeout(timers, stateT) /\ stateT' = stateT
         ELSE timers' = timers \cup { Timer(nextTimer, args) } /\ stateT' = nextTimer
    /\ nextTimer' = nextTimer + 1
    /\ burst' = IF InBurst THEN Append(burst, args) ELSE << args >>
    /\ fired' = IF InBurst THEN fired ELSE << >>
    /\ delivered' = NoCall
    /\ UNCHANGED << hostVars, storeVars, pending, listenVars >>

\* a wrapper that schedules the new timer and leaves the old one running
ThrottledSet_noCancel(args) ==
    /\ nextTimer <= MaxTimers
    /\ timers' = timers \cup { Timer(nextTimer, args) }
    /\ stateT' = nextTimer
    /\ nextTimer' = nextTimer + 1
    /\ burst' = IF InBurst THEN Append(burst, args) ELSE << args >>
    /\ fired' = IF InBurst THEN fired ELSE << >>
    /\ delivered' = NoCall
    /\ UNCHANGED << hostVars, storeVars, pending, listenVars >>

ThrottledSet(args) ==
    /\ nextTimer <= MaxTimers
    /\ timers' = clearTimeout(timers, stateT) \cup { Timer(nextTimer, args) }
    /\ stateT' = nextTimer
    /\ nextTimer' = nextTimer + 1
    /\ burst' = IF InBurst THEN Append(burst, args) ELSE << args >>
    /\ fired' = IF InBurst THEN fired ELSE << >>
    /\ delivered' = NoCall
    /\ UNCHANGED << hostVars, storeVars, pending, listenVars >>

\* throttlePeriod passes with no call: the oldest waiting timer becomes due
QuietPeriodElapses ==
    /\ \E x \in timers :
          /\ ~x.due
          /\ \A y \in timers : ~y.due => x.id <= y.id
          /\ timers' = (timers \ {x}) \cup { [x EXCEPT !.due = TRUE] }
    /\ delivered' = NoCall
    /\ UNCHANGED << hostVars, storeVars, pending, stateT, nextTimer, burst, fired, listenVars >>

\* a timer callback that forgets to reset state.t
TimerFires_keepsHandle(id, failAt) ==
    /\ \E x \in timers :
          /\ x.id = id
          /\ x.due
          /\ setBody(x.args, "timer", failAt)
          /\ timers' = timers \ {x}
          /\ fired' = Append(fired, x.args)
    /\ UNCHANGED << hostVars, stateT, nextTimer, burst, listenVars >>

\* the timer's callback: fn(...args); state.t = null
TimerFires(id, failAt) ==
    /\ \E x \in timers :
          /\ x.id = id
          /\ x.due
          /\ setBody(x.args, "timer", failAt)
          /\ timers' = timers \ {x}
          /\ fired' = Append(fired, x.args)
    /\ stateT' = 0
    /\ UNCHANGED << hostVars, nextTimer, burst, listenVars >>

\* ------------------------------------------------------------ addListener
Handlers == 1..MaxListeners

Subscription(target, fn) == [target |-> target, fn |-> fn]
Registered == { subscriptions[i].fn : i \in 1..Len(subscriptions) }

\* the subscriptions one call of addListener(fn) installs, in order
addListener(name, fn) ==
    (IF name = "chrome.storage" THEN << Subscription("chrome.storage.onChanged", fn) >> ELSE << >>)
        \o (IF name = "browser.storage" THEN << Subscription("browser.storage.onChanged", fn) >> ELSE << >>)
        \o << Subscription("window.storage", fn) >>

AddListener(fn) ==
    /\ fn \notin Registered
    /\ subscriptions' = IF apiError(storageName, FALSE) = NoError
                          THEN subscriptions \o addListener(storageName, fn)
                          ELSE subscriptions
    /\ handlerCalls' = << >>
    /\ lastEvent' = NoEvent
    /\ eventParity' = eventParity
    /\ delivered' = NoCall
    /\ UNCHANGED << hostVars, storeVars, pending, timerVars >>

\* A change mapping is the set of its entries.
Change(k, old, new) == [key |-> k, oldValue |-> old, newValue |-> new]
ChangeValues == { Undefined, Num(42), Str(<<"4", "2">>) }
ChangeSamples ==
    { { Change(k, o, n) } : k \in Keys, o \in ChangeValues, n \in ChangeValues }
        \cup { { Change("k1", Num(42), Undefined), Change("k2", Undefined, Str(<<"4", "2">>)) } }
\* areas whose changes chrome.storage.onChanged reports
AreaNames == {"sync", "managed"}
\* a StorageEvent: key is null (clear), empty or a key; values are strings or null
StorageEventValues == { Null, Str(<<>>), Str(<<"4", "2">>) }
StorageEventKeys == { Null, Str(<<>>) } \cup { Str(<< k >>) : k \in Keys }

HandlerCall(fn, changes, namespace, event) ==
    [fn |-> fn, changes |-> changes, namespace |-> namespace, event |-> event]

\* what the host hands to a listener: (changes, area) of onChanged, or the
\* StorageEvent's key, oldValue and newValue
NativeEvent(target, changes, area, key, old, new) ==
    [target |-> target, changes |-> changes, area |-> area,
     key |-> key, oldValue |-> old, newValue |-> new]

RECURSIVE ListenersOf(_, _)
ListenersOf(subs, target) ==
    IF subs = << >> THEN << >>
    ELSE (IF Head(subs).target = target THEN << Head(subs) >> ELSE << >>)
            \o ListenersOf(Tail(subs), target)

\* chrome.storage.onChanged / browser.storage.onChanged fires: the host calls
\* each listener fn(changes, areaName)
OnChanged(api, changes, area) ==
    /\ api = "chrome" => chromeHost = "sync"
    /\ api = "browser" => browserHost = "sync"
    /\ LET target == IF api = "chrome" THEN "chrome.storage.onChanged"
                                       ELSE "browser.storage.onChanged"
           e == NativeEvent(target, changes, area, Null, Null, Null)
           subs == ListenersOf(subscriptions, target)
       IN  /\ handlerCalls' = [ i \in 1..Len(subs) |-> HandlerCall(subs[i].fn, changes, area, e) ]
           /\ lastEvent' = e
    /\ eventParity' = 1 - eventParity
    /\ delivered' = NoCall
    /\ UNCHANGED << hostVars, storeVars, pending, timerVars, subscriptions >>

\* e.key as a key of the model: the string's single character names the key
KeyOf(key) == key.str[1]

\* storageEventListener(e) of one subscription: the handler calls it makes
storageEventListener(fn, e) ==
    IF e.key.type = "string" /\ e.key.str # << >>
      THEN << HandlerCall(fn, { Change(KeyOf(e.key), e.oldValue, e.newValue) }, "local", e) >>
      ELSE << >>

RECURSIVE Dispatch(_, _)
Dispatch(subs, e) ==
    IF subs = << >> THEN << >>
    ELSE storageEventListener(Head(subs).fn, e) \o Dispatch(Tail(subs), e)

\* a listener that drops an event equal to the one before it
StorageEvent_dedup(key, old, new) ==
    /\ LET e == NativeEvent("window.storage", {}, "", key, old, new)
       IN  /\ handlerCalls' = IF e = lastEvent THEN << >>
                               ELSE Dispatch(ListenersOf(subscriptions, "window.storage"), e)
           /\ lastEvent' = e
    /\ eventParity' = 1 - eventParity
    /\ delivered' = NoCall
    /\ UNCHANGED << hostVars, storeVars, pending, timerVars, subscriptions >>

\* the window receives a storage event
StorageEvent(key, old, new) ==
    /\ LET e == NativeEvent("window.storage", {}, "", key, old, new)
       IN  /\ handlerCalls' = Dispatch(ListenersOf(subscriptions, "window.storage"), e)
           /\ lastEvent' = e
    /\ eventParity' = 1 - eventParity
    /\ delivered' = NoCall
    /\ UNCHANGED << hostVars, storeVars, pending, timerVars, subscriptions >>

\* ------------------------------------------------------------ specifications
Defaults == { Str(<<"4", "2">>), Str(<< >>), Num(0), Num10(45) }
ThrottleArgs ==
    { << >>, << Pair("k1", Num(42)) >>, << Pair("k2", Str(<<"0", "0", "7">>)) >>,
      << Pair("k1", Str(<<"4", ".", "5">>)), Pair("k2", Num(0)) >> }
NativeErrors == {NoError, ChromeLastError, BrowserLastError}
FailAts == 1..3
SmallArgs == { << Pair("k1", Num(42)) >>, << Pair("k1", Str(<<"4", "2">>)), Pair("k2", Num(0)) >> }
SmallChanges == { { Change("k1", Undefined, Num(42)) } }

\* a caller that awaits each get and set before it makes the next call
NextStore ==
    \/ pending = << >> /\ \E k \in Keys, d \in Defaults, t \in BOOLEAN : Get(k, d, t)
    \/ \E i \in 1..MaxPending, e \in NativeErrors, g \in BOOLEAN : GetCallback(i, e, g)
    \/ pending = << >> /\ \E a \in SetArgs, f \in FailAts : Set(a, f)
    \/ \E i \in 1..MaxPending, e \in {NoError, NativeSetError} : SetSettles(i, e)

SpecStore == Init /\ [][NextStore]_vars

\* the debounced writer alone
NextThrottle ==
    \/ \E a \in ThrottleArgs : ThrottledSet(a)
    \/ QuietPeriodElapses
    \/ \E id \in 1..MaxTimers, f \in FailAts : TimerFires(id, f)
    \/ \E i \in 1..MaxPending, e \in {NoError, NativeSetError} : SetSettles(i, e)

SpecThrottle == Init /\ [][NextThrottle]_vars

\* the debounced writer on a host whose timers come due and run and whose
\* native calls settle
SpecThrottleFair ==
    /\ Init
    /\ [][NextThrottle]_vars
    /\ WF_vars(QuietPeriodElapses)
    /\ WF_vars(\E id \in 1..MaxTimers, f \in FailAts : TimerFires(id, f))
    /\ WF_vars(\E i \in 1..MaxPending, e \in {NoError, NativeSetError} : SetSettles(i, e))

\* the change listener alone
NextListen ==
    \/ \E fn \in Handlers : AddListener(fn)
    \/ \E api \in {"chrome", "browser"}, c \in ChangeSamples, a \in AreaNames : OnChanged(api, c, a)
    \/ \E k \in StorageEventKeys, o \in StorageEventValues, n \in StorageEventValues :
          StorageEvent(k, o, n)

SpecListen == Init /\ [][NextListen]_vars

\* parseDigits on every short string a store of the origin may hold: the
\* page starts with one such string under k1 and reads it
StoredChars == {"0", "2", "4", "7", ".", "-", " "}
StoredStrings == UNION { [1..n -> StoredChars] : n \in 0..MaxLen }

InitCoerce ==
    /\ chromeHost = "undeclared"
    /\ browserHost = "undeclared"
    /\ storageName = ResolveStorageName(chromeHost, browserHost)
    /\ chromeSync = EmptyStore
    /\ browserSync = EmptyStore
    /\ \E s \in StoredStrings : localStorage = [EmptyLocal EXCEPT !["k1"] = Str(s)]
    /\ written = EmptyStore
    /\ midLoop = << >>
    /\ pending = << >>
    /\ delivered = NoCall
    /\ stateT = 0
    /\ timers = {}
    /\ nextTimer = 1
    /\ burst = << >>
    /\ fired = << >>
    /\ subscriptions = << >>
    /\ handlerCalls = << >>
    /\ lastEvent = NoEvent
    /\ eventParity = 0

NextCoerce == \E k \in Keys, d \in {Num(0)} : Get(k, d, FALSE)

SpecCoerce == InitCoerce /\ [][NextCoerce]_vars

\* get and set while the debounced writer has timers waiting
NextFrame ==
    \/ \E k \in Keys, d \in {Num(0)} : Get(k, d, FALSE)
    \/ \E i \in 1..MaxPending, e \in NativeErrors, g \in {TRUE} : GetCallback(i, e, g)
    \/ \E a \in SmallArgs, f \in FailAts : Set(a, f)
    \/ \E i \in 1..MaxPending, e \in {NoError, NativeSetError} : SetSettles(i, e)
    \/ \E a \in { << Pair("k2", Num(42)) >> } : ThrottledSet(a)
    \/ QuietPeriodElapses
    \/ \E id \in 1..MaxTimers, f \in FailAts : TimerFires(id, f)

SpecFrame == Init /\ [][NextFrame]_vars

\* get, set and addListener on a host whose chrome / browser come and go
NextHost ==
    \/ \E ch \in HostShapes, br \in HostShapes : HostChanges(ch, br)
    \/ \E k \in {"k1"}, d \in {Num(0)} : Get(k, d, FALSE)
    \/ \E i \in 1..MaxPending, e \in {NoError}, g \in {TRUE} : GetCallback(i, e, g)
    \/ \E a \in { << Pair("k1", Num(42)) >> } : Set(a, Len(a) + 1)
    \/ \E i \in 1..MaxPending : SetSettles(i, NoError)
    \/ \E fn \in Handlers : AddListener(fn)

SpecHost == Init /\ [][NextHost]_vars

\* everything together, calls overlapping, on a small set of arguments
Next ==
    \/ \E k \in {"k1"}, d \in {Num(0)}, t \in BOOLEAN : Get(k, d, t)
    \/ \E i \in 1..MaxPending, e \in NativeErrors, g \in BOOLEAN : GetCallback(i, e, g)
    \/ \E a \in SmallArgs, f \in FailAts : Set(a, f)
    \/ \E i \in 1..MaxPending, e \in {NoError, NativeSetError} : SetSettles(i, e)
    \/ \E a \in { << Pair("k2", Num(42)) >> } : ThrottledSet(a)
    \/ QuietPeriodElapses
    \/ \E id \in 1..MaxTimers, f \in FailAts : TimerFires(id, f)
    \/ \E fn \in Handlers : AddListener(fn)
    \/ \E api \in {"chrome", "browser"}, c \in SmallChanges, a \in {"sync"} : OnChanged(api, c, a)
    \/ \E k \in {Str(<<"k1">>)}, o \in {Null}, n \in {Str(<<"4", "2">>)} : StorageEvent(k, o, n)

Spec == Init /\ [][Next]_vars

\* ------------------------------------------------------------ properties
\* a get that the last step settled for its caller, the native call having
\* reported no failure
GetSettled ==
    /\ delivered.op = "get"
    /\ delivered.native = NoError
    /\ delivered.state # "pending"

NonNegativeInteger(v) == v.type = "number" /\ v.x10 >= 0 /\ v.x10 % 10 = 0

C3_AsStated ==
    (GetSettled /\ delivered.api = "localStorage" /\ written[delivered.key] # Undefined)
        => /\ delivered.state = "resolved"
           /\ delivered.value = IF NonNegativeInteger(written[delivered.key])
                                  THEN written[delivered.key]
                                  ELSE Str(toString(written[delivered.key]))

\* C3 amended: on the fallback a written non-negative integer is read back as
\* the same number, a written digit-only string as the integer its digits
\* denote, and every other written value as its string form.
C3_FallbackCoercion ==
    (GetSettled /\ delivered.api = "localStorage" /\ written[delivered.key] # Undefined)
        => LET v == written[delivered.key]
           IN  /\ delivered.state = "resolved"
               /\ NonNegativeInteger(v) => delivered.value = v
               /\ (v.type = "string" /\ digitsTest(v.str)) =>
                      (delivered.value.type = "number"
                          /\ delivered.value.x10 = 10 * parseInt(v.str))
               /\ (v.type = "number" /\ ~NonNegativeInteger(v)) =>
                      (delivered.value.type = "string"
                          /\ delivered.value.str = NumberToString(v.x10))
               /\ (v.type = "string" /\ ~digitsTest(v.str)) => delivered.value = v

C3_Witness ==
    /\ GetSettled
    /\ delivered.api = "localStorage"
    /\ written[delivered.key] = Str(<<"0", "0", "7">>)
    /\ delivered.value = Num(7)
    /\ \E k \in Keys : written[k] = Num10(45) /\ localStorage[k] = Str(<<"4", ".", "5">>)

\* C8: the backend is chrome.storage when chrome exposes storage.sync (also
\* when browser does too), else browser.storage when browser exposes
\* storage.sync, else localStorage.
C8_SelectorPriority ==
    /\ chromeHost = "sync" => storageName = "chrome.storage"
    /\ (chromeHost # "sync" /\ browserHost = "sync") => storageName = "browser.storage"
    /\ (chromeHost # "sync" /\ browserHost # "sync") => storageName = "localStorage"

C8_Witness ==
    /\ chromeHost = "sync"
    /\ browserHost = "sync"
    /\ storageName = "chrome.storage"
    /\ delivered.op = "get"
    /\ delivered.api = "chrome"
    /\ delivered.state = "resolved"

\* C4: of the throttledSet calls of a burst (each made less than
\* throttlePeriod after the one before) only the last reaches set: when the
\* burst's timer has fired, set has been invoked exactly once, with the
\* arguments of the last call.
C4_DebounceCollapsing ==
    /\ Len(fired) <= 1
    /\ fired # << >> => (burst # << >> /\ fired[1] = burst[Len(burst)])
    /\ (timers = {} /\ burst # << >>) => Len(fired) = 1
    /\ (delivered.op = "set" /\ delivered.to = "nobody" /\ delivered.api = "localStorage")
          => delivered.args = burst[Len(burst)]

C4_Witness ==
    /\ storageName = "localStorage"
    /\ Len(burst) = 3
    /\ timers = {}
    /\ burst[1] = << Pair("k1", Num(42)) >>
    /\ burst[2] = << Pair("k1", Str(<<"4", ".", "5">>)), Pair("k2", Num(0)) >>
    /\ burst[3] = << Pair("k2", Str(<<"0", "0", "7">>)) >>
    /\ fired = << burst[3] >>
    /\ localStorage["k1"] = Null
    /\ localStorage["k2"] = Str(<<"0", "0", "7">>)

\* C5: the debounced writer has at most one pending timer, and state.t is the
\* id of that timer, or null when no timer is pending.
C5_OnePendingTimer ==
    /\ Cardinality(timers) <= 1
    /\ \A x \in timers : x.id = stateT
    /\ timers = {} => stateT = 0

C5_Witness ==
    /\ stateT = 3
    /\ timers = { [id |-> 3, args |-> << Pair("k1", Num(42)) >>, due |-> TRUE] }
    /\ Len(burst) = 2

\* C6: whenever the native call behind get, set or throttledSet fails, the
\* caller of that operation receives a rejected promise.
C6_FailuresReachCaller ==
    delivered.native # NoError => (delivered.to = "caller" /\ delivered.state = "rejected")

\* C7: the get adapter of each extension backend rejects with the native
\* error when that backend's native get reports one, and resolves otherwise.
C7_AdapterRejects ==
    (delivered.op = "get" /\ delivered.api \in {"chrome", "browser"})
        => IF delivered.native # NoError
             THEN delivered.adapter = "rejected" /\ delivered.adapterError = delivered.native
             ELSE delivered.adapter = "resolved"

\* C9: every addListener call installs exactly one subscription, and it is
\* the one of the resolved backend.
BackendTarget ==
    IF storageName = "chrome.storage" THEN "chrome.storage.onChanged"
    ELSE IF storageName = "browser.storage" THEN "browser.storage.onChanged"
    ELSE "window.storage"

C9_OneSubscriptionPerCall ==
    /\ Len(subscriptions) = Cardinality(Registered)
    /\ \A i \in 1..Len(subscriptions) : subscriptions[i].target = BackendTarget

\* C10: every handler invocation carries the native event's changes and the
\* tag "local" on the fallback, the native area name on an extension backend;
\* on an extension backend no handler is invoked with "local".
EventChanges(e) ==
    IF e.target = "window.storage"
      THEN { Change(KeyOf(e.key), e.oldValue, e.newValue) }
      ELSE e.changes

C10_ChangeNormalization ==
    \A i \in 1..Len(handlerCalls) :
        LET c == handlerCalls[i]
        IN  /\ c.changes = EventChanges(c.event)
            /\ storageName = "localStorage" => c.namespace = "local"
            /\ storageName # "localStorage" =>
                  (c.namespace = c.event.area /\ c.namespace # "local")

Interleaved ==
    \E i \in 1..Len(midLoop) :
        /\ midLoop[i].done >= 1
        /\ midLoop[i].done < Len(midLoop[i].args)
        /\ \/ \E j \in 1..Len(midLoop) : j # i /\ midLoop[j].done >= 1
           \/ delivered.op = "set" /\ delivered.api = "localStorage" /\ Len(delivered.args) >= 1

C12_PartialWrite ==
    [][(delivered'.op = "set" /\ delivered'.api = "localStorage" /\ delivered'.native # NoError)
          => LET a == delivered'.args
                 f == CHOOSE i \in 1..Len(a) : a[i][1] = delivered'.key
             IN  /\ \E i \in 1..Len(a) : a[i][1] = delivered'.key
                 /\ delivered'.state = "rejected"
                 /\ delivered'.error = delivered'.native
                 /\ \A i \in 1..Len(a) :
                      localStorage'[a[i][1]] = IF i < f THEN Str(toString(a[i][2]))
                                                        ELSE localStorage[a[i][1]]]_vars

C12_Witness ==
    /\ delivered.op = "set"
    /\ delivered.api = "localStorage"
    /\ delivered.state = "rejected"
    /\ delivered.error = QuotaExceededError
    /\ delivered.args = << Pair("k1", Num(42)), Pair("k2", Str(<<"0", "0", "7">>)) >>
    /\ delivered.key = "k2"
    /\ localStorage["k1"] = Str(<<"4", "2">>)
    /\ localStorage["k2"] = Str(<<"4", ".", "5">>)

\* C13: a throttledSet call never invokes set itself; set is invoked only by
\* a timer that is due; and while each call comes less than throttlePeriod
\* after the one before, set is not invoked at all.
C13_NoLeadingEdgeNoCeiling ==
    [][/\ nextTimer' # nextTimer =>
            (storeVars' = storeVars /\ pending' = pending /\ delivered' = NoCall
                /\ Len(fired') <= Len(fired))
       /\ (Len(fired') > Len(fired) \/ localStorage' # localStorage \/ Len(pending') > Len(pending))
            => \E x \in timers : x.due /\ x \notin timers'
       /\ (\E x \in timers' : ~x.due /\ x.id = stateT') => fired' = << >>]_vars

C13_Witness ==
    /\ Len(burst) = 3
    /\ fired = << >>
    /\ \E x \in timers : ~x.due /\ x.id = stateT /\ x.args = burst[3]
    /\ \A k \in Keys : written[k] = Undefined
    /\ pending = << >>

\* C14: once a timer is pending then, calls having stopped, it fires: set has
\* been invoked exactly once for the burst, with the arguments of its last
\* call, and state.t is null again; this holds anew for each later burst.
C14_EventuallyWritten ==
    (timers # {}) ~>
        (timers = {} /\ stateT = 0 /\ burst # << >> /\ fired = << burst[Len(burst)] >>)

C14_Witness ==
    /\ storageName = "localStorage"
    /\ nextTimer = 3
    /\ timers = {}
    /\ stateT = 0
    /\ burst = << << Pair("k2", Str(<<"0", "0", "7">>)) >> >>
    /\ fired = burst
    /\ localStorage["k1"] = Str(<<"4", "2">>)
    /\ localStorage["k2"] = Str(<<"0", "0", "7">>)

\* C15: parseDigits returns an integer exactly when the whole string is one
\* or more decimal digits ("42" gives 42, "007" gives 7) and returns every
\* other string unchanged ("", "4.5", "-1", " 42", "42 ").
AllDecimal(s) ==
    /\ s # << >>
    /\ { s[i] : i \in 1..Len(s) } \subseteq {"0", "1", "2", "3", "4", "5", "6", "7", "8", "9"}

RECURSIVE StripLeadingZeros(_)
StripLeadingZeros(s) ==
    IF Len(s) > 1 /\ s[1] = "0" THEN StripLeadingZeros(Tail(s)) ELSE s

C15_Coercion ==
    (delivered.op = "get" /\ delivered.state = "resolved" /\ localStorage[delivered.key] # Null)
        => LET s == localStorage[delivered.key].str
               v == delivered.value
           IN  /\ AllDecimal(s) =>
                      /\ v.type = "number"
                      /\ v.x10 >= 0
                      /\ v.x10 % 10 = 0
                      /\ DecimalDigits(v.x10 \div 10) = StripLeadingZeros(s)
               /\ ~AllDecimal(s) => v = Str(s)
               /\ s = <<"4", "2">> => v = Num(42)
               /\ s = <<"0", "0", "7">> => v = Num(7)

C15_Witness ==
    /\ delivered.op = "get"
    /\ delivered.key = "k1"
    /\ localStorage["k1"] = Str(<<"0", "0", "7">>)
    /\ delivered.value = Num(7)

\* C16: the backend identifier never changes after it was resolved, and every
\* get, set and addListener dispatches on it, whatever the host has become:
\* a request goes to the API the identifier names, a call answered at once
\* is answered by the backend the identifier names, and a subscription is the
\* one addListener makes for the identifier.
DispatchTarget == IF storageName = "localStorage" THEN "localStorage" ELSE ApiOf(storageName)

C16_ResolvedOnce ==
    [][ /\ storageName' = storageName
        /\ Len(pending') > Len(pending) =>
              /\ storageName # "localStorage"
              /\ pending'[Len(pending')].api = DispatchTarget
        /\ (delivered' # NoCall /\ Len(pending') = Len(pending)) =>
              delivered'.api = DispatchTarget
        /\ Len(subscriptions') > Len(subscriptions) =>
              \E fn \in Handlers : subscriptions' = subscriptions \o addListener(storageName, fn)
      ]_vars

\* the host now resolves to another backend, and a get was still sent to the
\* API of the identifier resolved at load
C16_Witness ==
    /\ ResolveStorageName(chromeHost, browserHost) # storageName
    /\ storageName = "browser.storage"
    /\ ResolveStorageName(chromeHost, browserHost) = "chrome.storage"
    /\ pending # << >>
    /\ pending[Len(pending)].op = "get"
    /\ pending[Len(pending)].api = "browser"

Falsy == { Num(0), Str(<< >>) }

BackendHolds(api, key) ==
    IF api = "chrome" THEN chromeSync[key] # Undefined
    ELSE IF api = "browser" THEN browserSync[key] # Undefined
    ELSE localStorage[key] # Null

NativeCallMade == Len(pending') = Len(pending) + 1 /\ SubSeq(pending', 1, Len(pending)) = pending
GetStep == \/ NativeCallMade /\ pending'[Len(pending')].op = "get"
           \/ delivered'.op = "get"
SetCall == NativeCallMade /\ pending'[Len(pending')].op = "set"

HoldsMapping(store, before, args) ==
    \A k \in Keys :
        IF \E j \in 1..Len(args) : args[j][1] = k
          THEN \E j \in 1..Len(args) : args[j][1] = k /\ store[k] = args[j][2]
          ELSE store[k] = before[k]

C19_Frame ==
    [][ /\ GetStep =>
              /\ chromeSync' = chromeSync /\ browserSync' = browserSync
              /\ localStorage' = localStorage
              /\ timerVars' = timerVars
        /\ SetCall =>
              /\ storageName # "localStorage"
              /\ pending'[Len(pending')].api = ApiOf(storageName)
              /\ pending'[Len(pending')].args \in SmallArgs \cup { x.args : x \in timers }
              /\ chromeSync' = chromeSync /\ browserSync' = browserSync
              /\ localStorage' = localStorage
        /\ (delivered'.op = "set" /\ delivered'.api \in {"chrome", "browser"}) =>
              /\ delivered'.api = ApiOf(storageName)
              /\ localStorage' = localStorage
              /\ delivered'.api = "chrome" => browserSync' = browserSync
              /\ delivered'.api = "browser" => chromeSync' = chromeSync
              /\ LET before == IF delivered'.api = "chrome" THEN chromeSync ELSE browserSync
                     after == IF delivered'.api = "chrome" THEN chromeSync' ELSE browserSync'
                 IN  IF delivered'.state = "resolved"
                       THEN HoldsMapping(after, before, delivered'.args)
                       ELSE after = before
        /\ storageName = "localStorage" =>
              /\ pending' = pending /\ pending = << >>
              /\ chromeSync' = chromeSync /\ browserSync' = browserSync
      ]_vars

\* a set on chrome.storage has stored its mapping while a debounce timer
\* waits; localStorage and browser.storage hold nothing
C19_Witness ==
    /\ delivered.op = "set"
    /\ delivered.api = "chrome"
    /\ delivered.state = "resolved"
    /\ delivered.args = << Pair("k1", Str(<<"4", "2">>)), Pair("k2", Num(0)) >>
    /\ chromeSync["k1"] = Str(<<"4", "2">>)
    /\ chromeSync["k2"] = Num(0)
    /\ browserSync = EmptyStore
    /\ localStorage = EmptyLocal
    /\ timers # {}

====
